---- MODULE Spec2Model ----
(***************************************************************************)
(* TutoringSystem (src/main.py): students, teachers, lessons, appointments *)
(* and payments kept in id-keyed maps, a set of occupied slot keys, five   *)
(* next-id counters and a JSON snapshot file rewritten after every         *)
(* successful mutation and read back by the constructor.                   *)
(***************************************************************************)
EXTENDS Integers, Sequences, FiniteSets, TLC

VARIABLES sys, db, last, issued, ui

vars == <<sys, db, last, issued, ui>>

(* ------------------------------ bounds --------------------------------- *)
MaxStudents == 2
MaxTeachers == 2
MaxLessons == 2
MaxAppointments == 2
MaxRatings == 1
MaxPayments == 2

(* ------------------------------ inputs --------------------------------- *)
Names == {"Ada"}
Phones == {"5551234567"}
Grades == {"Lise"}
Branches == {"Mat"}
Titles == {"Cebir"}
LessonKinds == {[duration |-> 60, hourly |-> 400]}
Methods == {"Kart"}
Scores == {0, 5, 6}
Dates == {"2025-03-10", "2025-02-30"}
Times == {"14:00", "24:00"}
StudentIds == 1..MaxStudents
TeacherIds == 1..MaxTeachers
LessonIds == 1..MaxLessons
AppointmentIds == 1..MaxAppointments

(* --------------------------- string helpers ---------------------------- *)
DigitChars == {"0", "1", "2", "3", "4", "5", "6", "7", "8", "9"}

Char(s, i) == IF i >= 1 /\ i <= Len(s) THEN SubSeq(s, i, i) ELSE ""

Sub(s, i, n) == IF i >= 1 /\ i + n - 1 <= Len(s) THEN SubSeq(s, i, i + n - 1) ELSE ""

DigitVal(c) ==
    CASE c = "0" -> 0 [] c = "1" -> 1 [] c = "2" -> 2 [] c = "3" -> 3
      [] c = "4" -> 4 [] c = "5" -> 5 [] c = "6" -> 6 [] c = "7" -> 7
      [] c = "8" -> 8 [] c = "9" -> 9 [] OTHER -> 0

RECURSIVE ToInt(_)
ToInt(s) == IF Len(s) = 0 THEN 0
            ELSE 10 * ToInt(SubSeq(s, 1, Len(s) - 1)) + DigitVal(Char(s, Len(s)))

(* strptime directive %Y: \d\d\d\d ; returns the number of characters taken, 0 = no match *)
MatchY(s, p) ==
    IF \A k \in 0..3 : Char(s, p + k) \in DigitChars THEN 4 ELSE 0

(* %m: 1[0-2] | 0[1-9] | [1-9], the alternative kept is the one followed by sep *)
MonthAlt2(s, p) ==
    \/ Char(s, p) = "1" /\ Char(s, p + 1) \in {"0", "1", "2"}
    \/ Char(s, p) = "0" /\ Char(s, p + 1) \in (DigitChars \ {"0"})

MatchM(s, p, sep) ==
    IF MonthAlt2(s, p) /\ Char(s, p + 2) = sep THEN 2
    ELSE IF Char(s, p) \in (DigitChars \ {"0"}) /\ Char(s, p + 1) = sep THEN 1
    ELSE 0

(* %d: 3[01] | [12]\d | 0[1-9] | [1-9] | " "[1-9], first alternative that matches *)
MatchD(s, p) ==
    IF \/ Char(s, p) = "3" /\ Char(s, p + 1) \in {"0", "1"}
       \/ Char(s, p) \in {"1", "2"} /\ Char(s, p + 1) \in DigitChars
       \/ Char(s, p) = "0" /\ Char(s, p + 1) \in (DigitChars \ {"0"})
    THEN 2
    ELSE IF Char(s, p) \in (DigitChars \ {"0"}) THEN 1
    ELSE IF Char(s, p) = " " /\ Char(s, p + 1) \in (DigitChars \ {"0"}) THEN 2
    ELSE 0

(* %H: 2[0-3] | [0-1]\d | \d, the alternative kept is the one followed by sep *)
MatchH(s, p, sep) ==
    IF /\ \/ Char(s, p) = "2" /\ Char(s, p + 1) \in {"0", "1", "2", "3"}
          \/ Char(s, p) \in {"0", "1"} /\ Char(s, p + 1) \in DigitChars
       /\ Char(s, p + 2) = sep
    THEN 2
    ELSE IF Char(s, p) \in DigitChars /\ Char(s, p + 1) = sep THEN 1
    ELSE 0

(* %M: [0-5]\d | \d, first alternative that matches *)
MatchMin(s, p) ==
    IF Char(s, p) \in {"0", "1", "2", "3", "4", "5"} /\ Char(s, p + 1) \in DigitChars THEN 2
    ELSE IF Char(s, p) \in DigitChars THEN 1
    ELSE 0

IsLeap(y) == (y % 4 = 0) /\ ((y % 100 # 0) \/ (y % 400 = 0))

DaysInMonth(y, m) ==
    IF m = 2 THEN (IF IsLeap(y) THEN 29 ELSE 28)
    ELSE IF m \in {4, 6, 9, 11} THEN 30
    ELSE 31

(* datetime.strptime(date_str, "%Y-%m-%d") returns (TRUE) or raises ValueError (FALSE) *)
_validate_date(date_str) ==
    LET ny == MatchY(date_str, 1)
        pm == 6
        nm == MatchM(date_str, pm, "-")
        pd == pm + nm + 1
        nd == MatchD(date_str, pd)
        y  == ToInt(Sub(date_str, 1, 4))
        m  == ToInt(Sub(date_str, pm, nm))
        dtxt == Sub(date_str, pd, nd)
        d  == ToInt(IF Char(dtxt, 1) = " " THEN Sub(dtxt, 2, 1) ELSE dtxt)
    IN  /\ ny = 4
        /\ Char(date_str, 5) = "-"
        /\ nm > 0
        /\ nd > 0
        /\ pd + nd - 1 = Len(date_str)
        /\ y >= 1
        /\ d >= 1 /\ d <= DaysInMonth(y, m)

(* datetime.strptime(time_str, "%H:%M") *)
_validate_time(time_str) ==
    LET nh == MatchH(time_str, 1, ":")
        pmin == nh + 2
        nmin == MatchMin(time_str, pmin)
    IN  /\ nh > 0
        /\ nmin > 0
        /\ pmin + nmin - 1 = Len(time_str)

(* ------------------------------ records -------------------------------- *)
(* User.get_phone_masked *)
get_phone_masked(phone) ==
    IF Len(phone) < 4 THEN "***"
    ELSE "***-***-" \o SubSeq(phone, Len(phone) - 3, Len(phone))

Student(user_id, name, phone, grade_level) ==
    [user_id |-> user_id, name |-> name, phone |-> phone,
     grade_level |-> grade_level, appointments |-> <<>>]

(* Student.add_appointment *)
add_appointment_skip(st, appointment_id) == st

add_appointment(st, appointment_id) == [st EXCEPT !.appointments = Append(@, appointment_id)]

Teacher(user_id, name, phone, branch) ==
    [user_id |-> user_id, name |-> name, phone |-> phone, branch |-> branch,
     lessons |-> <<>>, rating_sum |-> 0, rating_count |-> 0]

(* Teacher.add_lesson *)
Teacher_add_lesson_skip(t, lesson_id) == t

Teacher_add_lesson(t, lesson_id) == [t EXCEPT !.lessons = Append(@, lesson_id)]

Lesson(lesson_id, title, duration_min, hourly_price) ==
    [lesson_id |-> lesson_id, title |-> title,
     duration_min |-> duration_min, hourly_price |-> hourly_price]

NoPayment == 0

(* the Student, Teacher and Lesson an Appointment holds are the objects of *)
(* the maps, named here by their ids                                       *)
Appointment(appointment_id, student, teacher, lesson, date_str, time_str) ==
    [appointment_id |-> appointment_id, student |-> student, teacher |-> teacher,
     lesson |-> lesson, date_str |-> date_str, time_str |-> time_str,
     is_paid |-> FALSE, payment_id |-> NoPayment]

mark_paid_no_flag(a, payment_id) == [a EXCEPT !.payment_id = payment_id]

mark_paid(a, payment_id) == [a EXCEPT !.is_paid = TRUE, !.payment_id = payment_id]

(* the amounts used are whole: hourly_price * duration_min is a multiple of 60 *)
calculate_total_whole_hours(s, a) ==
    s.lessons[a.lesson].hourly_price * (s.lessons[a.lesson].duration_min \div 60)

calculate_total(s, a) ==
    (s.lessons[a.lesson].hourly_price * s.lessons[a.lesson].duration_min) \div 60

Payment(payment_id, appointment_id, amount, method) ==
    [payment_id |-> payment_id, appointment_id |-> appointment_id,
     amount |-> amount, method |-> method]

slot_key_by_student(a) == ToString(a.student) \o ":" \o a.date_str \o ":" \o a.time_str

slot_key_no_teacher(a) == a.date_str \o ":" \o a.time_str

slot_key(a) == ToString(a.teacher) \o ":" \o a.date_str \o ":" \o a.time_str

SeqToSet(q) == {q[i] : i \in 1..Len(q)}

(* the state __init__ builds before it calls load() *)
EmptyStore ==
    [students |-> <<>>, teachers |-> <<>>, lessons |-> <<>>,
     appointments |-> <<>>, payments |-> <<>>, occupied_slots |-> {},
     next_student_id |-> 1, next_teacher_id |-> 1, next_lesson_id |-> 1,
     next_appointment_id |-> 1, next_payment_id |-> 1]

(* dict assignment d[k] = v *)
Put(m, k, v) == [x \in (DOMAIN m) \cup {k} |-> IF x = k THEN v ELSE m[x]]

(* ----------------------------- persistence ------------------------------ *)
NoFile == [kind |-> "absent"]
Garbage == [kind |-> "garbage"]
JsonFile(data) == [kind |-> "json", data |-> data]

Min(S) == CHOOSE x \in S : \A y \in S : x <= y

(* the keys of a dict in insertion order; ids are inserted in increasing order *)
RECURSIVE KeysInOrder(_)
KeysInOrder(S) == IF S = {} THEN <<>> ELSE <<Min(S)>> \o KeysInOrder(S \ {Min(S)})

Values(m) == LET ks == KeysInOrder(DOMAIN m) IN [i \in 1..Len(ks) |-> m[ks[i]]]

save_student(st) ==
    [id |-> st.user_id, name |-> st.name, phone_masked |-> get_phone_masked(st.phone),
     grade |-> st.grade_level, appointments |-> st.appointments]

save_teacher(t) ==
    [id |-> t.user_id, name |-> t.name, branch |-> t.branch, lessons |-> t.lessons]

save_lesson(l) ==
    [id |-> l.lesson_id, title |-> l.title, duration |-> l.duration_min, hourly |-> l.hourly_price]

save_appointment(a) ==
    [id |-> a.appointment_id, student_id |-> a.student, teacher_id |-> a.teacher,
     lesson_id |-> a.lesson, date |-> a.date_str, time |-> a.time_str, paid |-> a.is_paid]

save_next_ids(s) ==
    [student |-> s.next_student_id, teacher |-> s.next_teacher_id,
     lesson |-> s.next_lesson_id, appointment |-> s.next_appointment_id,
     payment |-> s.next_payment_id]

(* TutoringSystem.save: the document written to db_path *)
save(s) ==
    JsonFile([next_ids |-> save_next_ids(s),
              students |-> LET v == Values(s.students) IN [i \in 1..Len(v) |-> save_student(v[i])],
              teachers |-> LET v == Values(s.teachers) IN [i \in 1..Len(v) |-> save_teacher(v[i])],
              lessons |-> LET v == Values(s.lessons) IN [i \in 1..Len(v) |-> save_lesson(v[i])],
              appointments |-> LET v == Values(s.appointments) IN [i \in 1..Len(v) |-> save_appointment(v[i])]])

(* dict.get(key, default) *)
Get(d, k, default) == IF k \in DOMAIN d THEN d[k] ELSE default

Has(d, ks) == ks \subseteq DOMAIN d

load_next_ids_no_payment(s, data) ==
    LET ids == Get(data, "next_ids", <<>>)
    IN  [s EXCEPT !.next_student_id = Get(ids, "student", 1),
                  !.next_teacher_id = Get(ids, "teacher", 1),
                  !.next_lesson_id = Get(ids, "lesson", 1),
                  !.next_appointment_id = Get(ids, "appointment", 1)]

load_next_ids(s, data) ==
    LET ids == Get(data, "next_ids", <<>>)
    IN  [s EXCEPT !.next_student_id = Get(ids, "student", 1),
                  !.next_teacher_id = Get(ids, "teacher", 1),
                  !.next_lesson_id = Get(ids, "lesson", 1),
                  !.next_appointment_id = Get(ids, "appointment", 1),
                  !.next_payment_id = Get(ids, "payment", 1)]

(* load, lines 239 and 245: the phone a reloaded Student or Teacher is built *)
(* with; the entry e of the file is not consulted                           *)
loaded_phone_from_mask(e) == Get(e, "phone_masked", "0000")

loaded_phone(e) == "0000"

(* each loop of load stops at the first entry that raises; what was stored *)
(* before stays in the store                                              *)
RECURSIVE load_students(_, _, _)
load_students(s, q, i) ==
    IF i > Len(q) THEN [sys |-> s, ok |-> TRUE]
    ELSE IF ~Has(q[i], {"id", "name"}) THEN [sys |-> s, ok |-> FALSE]
    ELSE LET e == q[i]
             st == [Student(e.id, e.name, loaded_phone(e), Get(e, "grade", ""))
                        EXCEPT !.appointments = Get(e, "appointments", <<>>)]
         IN  load_students([s EXCEPT !.students = Put(@, st.user_id, st)], q, i + 1)

RECURSIVE load_teachers(_, _, _)
load_teachers(s, q, i) ==
    IF i > Len(q) THEN [sys |-> s, ok |-> TRUE]
    ELSE IF ~Has(q[i], {"id", "name"}) THEN [sys |-> s, ok |-> FALSE]
    ELSE LET e == q[i]
             te == [Teacher(e.id, e.name, loaded_phone(e), Get(e, "branch", ""))
                        EXCEPT !.lessons = Get(e, "lessons", <<>>)]
         IN  load_teachers([s EXCEPT !.teachers = Put(@, te.user_id, te)], q, i + 1)

RECURSIVE load_lessons(_, _, _)
load_lessons(s, q, i) ==
    IF i > Len(q) THEN [sys |-> s, ok |-> TRUE]
    ELSE IF ~Has(q[i], {"id", "title", "duration", "hourly"}) THEN [sys |-> s, ok |-> FALSE]
    ELSE LET e == q[i]
             le == Lesson(e.id, e.title, e.duration, e.hourly)
         IN  load_lessons([s EXCEPT !.lessons = Put(@, le.lesson_id, le)], q, i + 1)

(* load, line 265 *)
index_loaded_skip(s, ap) == s

index_loaded(s, ap) == [s EXCEPT !.occupied_slots = @ \cup {slot_key(ap)}]

RECURSIVE load_appointments(_, _, _)
load_appointments(s, q, i) ==
    IF i > Len(q) THEN [sys |-> s, ok |-> TRUE]
    ELSE IF ~Has(q[i], {"id", "student_id", "teacher_id", "lesson_id"}) THEN [sys |-> s, ok |-> FALSE]
    ELSE IF \/ q[i].student_id \notin DOMAIN s.students
            \/ q[i].teacher_id \notin DOMAIN s.teachers
            \/ q[i].lesson_id \notin DOMAIN s.lessons
         THEN [sys |-> s, ok |-> FALSE]
    ELSE IF ~Has(q[i], {"date", "time"}) THEN [sys |-> s, ok |-> FALSE]
    ELSE LET e == q[i]
             ap == Appointment(e.id, e.student_id, e.teacher_id, e.lesson_id, e.date, e.time)
         IN  load_appointments(
                 index_loaded([s EXCEPT !.appointments = Put(@, ap.appointment_id, ap)], ap),
                 q, i + 1)

(* TutoringSystem.load on the store __init__ has just built; the except    *)
(* clause swallows the error and keeps whatever the try block had assigned *)
load(s, d) ==
    IF d.kind = "absent" THEN [sys |-> s, outcome |-> "no_file"]
    ELSE IF d.kind = "garbage" THEN [sys |-> s, outcome |-> "failed"]
    ELSE LET data == d.data
             s0 == load_next_ids(s, data)
             r1 == load_students(s0, Get(data, "students", <<>>), 1)
             r2 == load_teachers(r1.sys, Get(data, "teachers", <<>>), 1)
             r3 == load_lessons(r2.sys, Get(data, "lessons", <<>>), 1)
             r4 == load_appointments(r3.sys, Get(data, "appointments", <<>>), 1)
         IN  IF ~r1.ok THEN [sys |-> r1.sys, outcome |-> "failed"]
             ELSE IF ~r2.ok THEN [sys |-> r2.sys, outcome |-> "failed"]
             ELSE IF ~r3.ok THEN [sys |-> r3.sys, outcome |-> "failed"]
             ELSE IF ~r4.ok THEN [sys |-> r4.sys, outcome |-> "failed"]
             ELSE [sys |-> r4.sys, outcome |-> "loaded"]

(* TutoringSystem.__init__ *)
__init__(d) == load(EmptyStore, d)

(* ------------------------------ operations ----------------------------- *)
(* an operation maps the store and the file to the new store, the new file, *)
(* the error raised ("OK" when it returns) and the id of the record returned *)
Raise(s, d, err) == [sys |-> s, db |-> d, result |-> err, ret |-> 0]
Return(s, id) == [sys |-> s, db |-> save(s), result |-> "OK", ret |-> id]

add_student_same_id(s, d, name, phone, grade_level) ==
    LET st == Student(s.next_student_id, name, phone, grade_level)
        s1 == [s EXCEPT !.students = Put(@, st.user_id, st)]
    IN  Return(s1, st.user_id)

add_student(s, d, name, phone, grade_level) ==
    LET st == Student(s.next_student_id, name, phone, grade_level)
        s1 == [s EXCEPT !.students = Put(@, st.user_id, st),
                        !.next_student_id = @ + 1]
    IN  Return(s1, st.user_id)

add_teacher(s, d, name, phone, branch) ==
    LET t == Teacher(s.next_teacher_id, name, phone, branch)
        s1 == [s EXCEPT !.teachers = Put(@, t.user_id, t),
                        !.next_teacher_id = @ + 1]
    IN  Return(s1, t.user_id)

add_lesson(s, d, teacher_id, title, duration_min, hourly_price) ==
    IF teacher_id \notin DOMAIN s.teachers THEN Raise(s, d, "NotFound_teacher")
    ELSE LET lesson == Lesson(s.next_lesson_id, title, duration_min, hourly_price)
             s1 == [s EXCEPT !.lessons = Put(@, lesson.lesson_id, lesson),
                             !.teachers[teacher_id] = Teacher_add_lesson(@, lesson.lesson_id),
                             !.next_lesson_id = @ + 1]
         IN  Return(s1, lesson.lesson_id)

(* create_appointment, line 303: the lesson is one of the teacher's *)
belongs_any(s, teacher_id, lesson_id) == TRUE

belongs_to_some_teacher(s, teacher_id, lesson_id) ==
    \E t \in DOMAIN s.teachers : lesson_id \in SeqToSet(s.teachers[t].lessons)

belongs(s, teacher_id, lesson_id) == lesson_id \in SeqToSet(s.teachers[teacher_id].lessons)

(* create_appointment, line 313 *)
is_occupied_never(s, key) == FALSE

is_occupied(s, key) == key \in s.occupied_slots

(* create_appointment, line 315 *)
reserve_skip(s, key) == s

reserve(s, key) == [s EXCEPT !.occupied_slots = @ \cup {key}]

(* create_appointment from line 309 on: the arguments have passed the checks *)
book(s, d, student_id, teacher_id, lesson_id, date_str, time_str) ==
    LET appt == Appointment(s.next_appointment_id, student_id, teacher_id, lesson_id, date_str, time_str)
        key == slot_key(appt)
    IN  IF is_occupied(s, key) THEN Raise(s, d, "SlotConflict")
        ELSE LET s1 == [reserve(s, key) EXCEPT
                            !.appointments = Put(@, appt.appointment_id, appt),
                            !.students[student_id] = add_appointment(@, appt.appointment_id),
                            !.next_appointment_id = @ + 1]
             IN  Return(s1, appt.appointment_id)

create_appointment_format_first(s, d, student_id, teacher_id, lesson_id, date_str, time_str) ==
    IF ~_validate_date(date_str) THEN Raise(s, d, "InvalidFormat")
    ELSE IF ~_validate_time(time_str) THEN Raise(s, d, "InvalidFormat")
    ELSE IF student_id \notin DOMAIN s.students THEN Raise(s, d, "NotFound_student")
    ELSE IF teacher_id \notin DOMAIN s.teachers THEN Raise(s, d, "NotFound_teacher")
    ELSE IF lesson_id \notin DOMAIN s.lessons THEN Raise(s, d, "NotFound_lesson")
    ELSE IF ~belongs(s, teacher_id, lesson_id) THEN Raise(s, d, "InvalidRelation")
    ELSE book(s, d, student_id, teacher_id, lesson_id, date_str, time_str)

create_appointment(s, d, student_id, teacher_id, lesson_id, date_str, time_str) ==
    IF student_id \notin DOMAIN s.students THEN Raise(s, d, "NotFound_student")
    ELSE IF teacher_id \notin DOMAIN s.teachers THEN Raise(s, d, "NotFound_teacher")
    ELSE IF lesson_id \notin DOMAIN s.lessons THEN Raise(s, d, "NotFound_lesson")
    ELSE IF ~belongs(s, teacher_id, lesson_id) THEN Raise(s, d, "InvalidRelation")
    ELSE IF ~_validate_date(date_str) THEN Raise(s, d, "InvalidFormat")
    ELSE IF ~_validate_time(time_str) THEN Raise(s, d, "InvalidFormat")
    ELSE book(s, d, student_id, teacher_id, lesson_id, date_str, time_str)

pay_no_save(s, d, appointment_id, method) ==
    IF appointment_id \notin DOMAIN s.appointments THEN Raise(s, d, "NotFound_appointment")
    ELSE LET appt == s.appointments[appointment_id]
         IN  IF appt.is_paid THEN Raise(s, d, "AlreadyPaid")
             ELSE LET payment == Payment(s.next_payment_id, appointment_id, calculate_total(s, appt), method)
                      s1 == [s EXCEPT !.payments = Put(@, s.next_payment_id, payment),
                                      !.appointments[appointment_id] = mark_paid(@, s.next_payment_id),
                                      !.next_payment_id = @ + 1]
                  IN  [sys |-> s1, db |-> d, result |-> "OK", ret |-> payment.payment_id]

pay(s, d, appointment_id, method) ==
    IF appointment_id \notin DOMAIN s.appointments THEN Raise(s, d, "NotFound_appointment")
    ELSE LET appt == s.appointments[appointment_id]
         IN  IF appt.is_paid THEN Raise(s, d, "AlreadyPaid")
             ELSE LET payment == Payment(s.next_payment_id, appointment_id, calculate_total(s, appt), method)
                      s1 == [s EXCEPT !.payments = Put(@, s.next_payment_id, payment),
                                      !.appointments[appointment_id] = mark_paid(@, s.next_payment_id),
                                      !.next_payment_id = @ + 1]
                  IN  Return(s1, payment.payment_id)

(* Teacher.rate: raises ValueError (ok = FALSE) before it changes anything; *)
(* the Teacher object is changed in place, so whatever rate has assigned    *)
(* when it raises stays in the store                                        *)
rate_count_first(t, score) ==
    IF ~(1 <= score /\ score <= 5) THEN [ok |-> FALSE, teacher |-> [t EXCEPT !.rating_count = @ + 1]]
    ELSE [ok |-> TRUE, teacher |-> [t EXCEPT !.rating_sum = @ + score, !.rating_count = @ + 1]]

rate(t, score) ==
    IF ~(1 <= score /\ score <= 5) THEN [ok |-> FALSE, teacher |-> t]
    ELSE [ok |-> TRUE, teacher |-> [t EXCEPT !.rating_sum = @ + score, !.rating_count = @ + 1]]

rate_teacher(s, d, teacher_id, score) ==
    IF teacher_id \notin DOMAIN s.teachers THEN Raise(s, d, "NotFound_teacher")
    ELSE LET r == rate(s.teachers[teacher_id], score)
             s1 == [s EXCEPT !.teachers[teacher_id] = r.teacher]
         IN  IF ~r.ok THEN Raise(s1, d, "OutOfRange")
             ELSE Return(s1, 0)

(* ------------------------------- state --------------------------------- *)
(* sys: the TutoringSystem object; db: the file at db_path; last: the call *)
(* made last, the error it raised ("OK" if none) and the id of the record  *)
(* it returned; issued: every id a creation has returned so far, per kind; *)
(* ui: where main stands (in the menu loop or past it), the menu choice    *)
(* handled last, how its branch ended and what was displayed for it        *)
Call(op, result, ret) == [op |-> op, result |-> result, ret |-> ret]

NoneIssued == [student |-> {}, teacher |-> {}, lesson |-> {}, appointment |-> {}, payment |-> {}]

KindOf(op) ==
    CASE op = "add_student" -> "student"
      [] op = "add_teacher" -> "teacher"
      [] op = "add_lesson" -> "lesson"
      [] op = "create_appointment" -> "appointment"
      [] op = "pay" -> "payment"
      [] OTHER -> "none"

RECURSIVE Sum(_, _)
Sum(f, S) == IF S = {} THEN 0 ELSE LET x == CHOOSE y \in S : TRUE IN f[x] + Sum(f, S \ {x})

Ratings(s) == Sum([t \in DOMAIN s.teachers |-> s.teachers[t].rating_count], DOMAIN s.teachers)

(* the exploration stops at these sizes *)
Bounded(s) ==
    /\ s.next_student_id <= MaxStudents + 1
    /\ s.next_teacher_id <= MaxTeachers + 1
    /\ s.next_lesson_id <= MaxLessons + 1
    /\ s.next_appointment_id <= MaxAppointments + 1
    /\ s.next_payment_id <= MaxPayments + 1
    /\ Ratings(s) <= MaxRatings

(* main before the first pass of the loop *)
Started == [pc |-> "menu", choice |-> "", outcome |-> "OK", shown |-> "none"]

ChoiceOf(op) ==
    CASE op = "add_student" -> "1"
      [] op = "add_teacher" -> "2"
      [] op = "add_lesson" -> "3"
      [] op = "create_appointment" -> "4"
      [] op = "pay" -> "5"
      [] op = "rate_teacher" -> "6"

(* the try statement of main around the branch of a choice: the branch     *)
(* ends with info(...) or raises outcome, which the except clause displays *)
after_command_uncaught(choice, outcome) ==
    IF outcome = "OK" THEN [pc |-> "menu", choice |-> choice, outcome |-> outcome, shown |-> "info"]
    ELSE [pc |-> "exited", choice |-> choice, outcome |-> outcome, shown |-> "none"]

after_command(choice, outcome) ==
    [pc |-> "menu", choice |-> choice, outcome |-> outcome,
     shown |-> IF outcome = "OK" THEN "info" ELSE "error"]

Step(op, r) ==
    /\ ui.pc = "menu"
    /\ Bounded(r.sys)
    /\ ui' = after_command(ChoiceOf(op), r.result)
    /\ sys' = r.sys
    /\ db' = r.db
    /\ last' = Call(op, r.result, r.ret)
    /\ issued' = IF r.result = "OK" /\ KindOf(op) # "none"
                 THEN [issued EXCEPT ![KindOf(op)] = @ \cup {r.ret}]
                 ELSE issued

Init ==
    /\ sys = EmptyStore
    /\ db = NoFile
    /\ last = Call("__init__", "no_file", 0)
    /\ issued = NoneIssued
    /\ ui = Started

AddStudent ==
    \E name \in Names, phone \in Phones, grade \in Grades :
        Step("add_student", add_student(sys, db, name, phone, grade))

AddTeacher ==
    \E name \in Names, phone \in Phones, branch \in Branches :
        Step("add_teacher", add_teacher(sys, db, name, phone, branch))

AddLesson ==
    \E t \in TeacherIds, title \in Titles, k \in LessonKinds :
        Step("add_lesson", add_lesson(sys, db, t, title, k.duration, k.hourly))

CreateAppointment ==
    \E st \in StudentIds, t \in TeacherIds, l \in LessonIds, date \in Dates, time \in Times :
        Step("create_appointment", create_appointment(sys, db, st, t, l, date, time))

Pay ==
    \E a \in AppointmentIds, method \in Methods :
        Step("pay", pay(sys, db, a, method))

RateTeacher ==
    \E t \in TeacherIds, score \in Scores :
        Step("rate_teacher", rate_teacher(sys, db, t, score))

(* the process ends and a new TutoringSystem is constructed on the same file *)
Restart ==
    LET r == __init__(db)
    IN  /\ sys' = r.sys
        /\ db' = db
        /\ last' = Call("__init__", r.outcome, 0)
        /\ ui' = Started
        /\ UNCHANGED issued

(* the file is damaged while no process runs: it is no JSON document any    *)
(* more, a student entry is gone, or an appointment entry has lost a field  *)
RemoveAt(q, i) == SubSeq(q, 1, i - 1) \o SubSeq(q, i + 1, Len(q))

DropField(r, f) == [k \in (DOMAIN r) \ {f} |-> r[k]]

Damaged(d) ==
    IF d.kind # "json" THEN {}
    ELSE {Garbage}
         \cup {JsonFile([d.data EXCEPT !.students = RemoveAt(@, i)]) : i \in 1..Len(d.data.students)}
         \cup {JsonFile([d.data EXCEPT !.appointments[i] = DropField(@, "time")]) : i \in 1..Len(d.data.appointments)}

RestartDamaged ==
    \E d \in Damaged(db) :
        LET r == __init__(d)
        IN  /\ r.outcome = "failed"
            /\ sys' = r.sys
            /\ db' = d
            /\ last' = Call("__init__", r.outcome, 0)
            /\ ui' = Started
            /\ UNCHANGED issued

Ops ==
    \/ AddStudent
    \/ AddTeacher
    \/ AddLesson
    \/ CreateAppointment
    \/ Pay
    \/ RateTeacher

Next == Ops

Spec == Init /\ [][Next]_vars

NextRestart ==
    \/ Ops
    \/ Restart

SpecRestart == Init /\ [][NextRestart]_vars

(* runs that end with a store constructed on a damaged file: what that     *)
(* store does afterwards is not explored                                   *)
NextDamaged ==
    \/ last.result # "failed" /\ Ops
    \/ RestartDamaged

SpecDamaged == Init /\ [][NextDamaged]_vars

(* sessions that register lessons of several durations and prices and pay  *)
(* for them                                                                *)
PricedKinds ==
    {[duration |-> 90, hourly |-> 400], [duration |-> 30, hourly |-> 100],
     [duration |-> 60, hourly |-> 400], [duration |-> 45, hourly |-> 240]}

AddPricedLesson ==
    \E t \in TeacherIds, title \in Titles, k \in PricedKinds :
        Step("add_lesson", add_lesson(sys, db, t, title, k.duration, k.hourly))

NextBilling ==
    \/ AddStudent
    \/ AddTeacher
    \/ AddPricedLesson
    \/ CreateAppointment
    \/ Pay

SpecBilling == Init /\ [][NextBilling]_vars

(* the menu loop with the commands that never reach the store: an id that  *)
(* int() rejects, a choice outside the menu, the listings and the exit     *)
ParsedChoices == {"3", "4", "5", "6"}
ListChoices == {"1", "2", "3", "4", "5", "6"}
UnknownChoices == {"8", "x"}

(* int(input(...)) raises ValueError before the operation is called *)
ParseError ==
    \E choice \in ParsedChoices :
        /\ ui.pc = "menu"
        /\ ui' = after_command(choice, "ValueError")
        /\ UNCHANGED <<sys, db, last, issued>>

(* choice 7: a listing, or error("Geçersiz seçim.") for an unknown one *)
List ==
    \E sub \in ListChoices :
        /\ ui.pc = "menu"
        /\ ui' = IF sub \in {"1", "2", "3", "4", "5"}
                 THEN [pc |-> "menu", choice |-> "7", outcome |-> "OK", shown |-> "list"]
                 ELSE [pc |-> "menu", choice |-> "7", outcome |-> "OK", shown |-> "error"]
        /\ UNCHANGED <<sys, db, last, issued>>

UnknownChoice ==
    \E choice \in UnknownChoices :
        /\ ui.pc = "menu"
        /\ ui' = [pc |-> "menu", choice |-> choice, outcome |-> "OK", shown |-> "error"]
        /\ UNCHANGED <<sys, db, last, issued>>

(* choice 0: info("Çıkılıyor...") and break *)
Exit ==
    /\ ui.pc = "menu"
    /\ ui' = [pc |-> "exited", choice |-> "0", outcome |-> "OK", shown |-> "info"]
    /\ UNCHANGED <<sys, db, last, issued>>

NextMenu ==
    \/ Ops
    \/ ParseError
    \/ List
    \/ UnknownChoice
    \/ Exit

SpecMenu == Init /\ [][NextMenu]_vars

(* ------------------------------ properties ------------------------------ *)
Appts == DOMAIN sys.appointments

PaymentsOf(s, a) == {p \in DOMAIN s.payments : s.payments[p].appointment_id = a}

(* C1: no two distinct appointments of the map have the same teacher id,   *)
(* date string and time string                                             *)
C1_OneAppointmentPerSlot ==
    \A a, b \in Appts :
        a # b => <<sys.appointments[a].teacher, sys.appointments[a].date_str, sys.appointments[a].time_str>>
                 # <<sys.appointments[b].teacher, sys.appointments[b].date_str, sys.appointments[b].time_str>>

(* a second booking of a taken slot was refused while two appointments stand *)
C1_Witness ==
    /\ last.op = "create_appointment"
    /\ last.result = "SlotConflict"
    /\ Cardinality(Appts) >= 2

(* C2: right after create_appointment(s1, t, l1, d, h) has succeeded, the  *)
(* call create_appointment(s2, t, l2, d, h) fails with SlotConflict for    *)
(* every existing student s2 and every lesson l2 of teacher t              *)
C2_SecondBookingConflicts ==
    (last.op = "create_appointment" /\ last.result = "OK") =>
        LET a == sys.appointments[last.ret]
        IN  \A s2 \in DOMAIN sys.students :
                \A l2 \in SeqToSet(sys.teachers[a.teacher].lessons) :
                    create_appointment(sys, db, s2, a.teacher, l2, a.date_str, a.time_str).result
                        = "SlotConflict"

(* a booking has just succeeded where another student and another lesson of *)
(* the same teacher exist for the second call                               *)
C2_Witness ==
    /\ last.op = "create_appointment"
    /\ last.result = "OK"
    /\ Cardinality(DOMAIN sys.students) >= 2
    /\ Len(sys.teachers[sys.appointments[last.ret].teacher].lessons) >= 2

(* C3: with student, teacher and lesson all present and the lesson not in  *)
(* the teacher's lesson list, create_appointment fails with InvalidRelation *)
(* for every date and time, valid or not, free or taken                     *)
C3_ForeignLessonRejected ==
    \A st \in DOMAIN sys.students, t \in DOMAIN sys.teachers, l \in DOMAIN sys.lessons :
        l \notin SeqToSet(sys.teachers[t].lessons) =>
            \A date \in Dates, time \in Times :
                create_appointment(sys, db, st, t, l, date, time).result = "InvalidRelation"

(* the call was refused for that reason while the other teacher's slot is taken *)
C3_Witness ==
    /\ last.op = "create_appointment"
    /\ last.result = "InvalidRelation"
    /\ sys.occupied_slots # {}

(* C4: in one running store an appointment has at most one Payment, it is  *)
(* paid exactly when it has one, pay on an unpaid appointment succeeds and  *)
(* adds exactly one Payment for it, and pay on a paid one fails with        *)
(* AlreadyPaid and adds none                                                *)
C4_PaidOnce ==
    \A a \in Appts :
        /\ Cardinality(PaymentsOf(sys, a)) <= 1
        /\ sys.appointments[a].is_paid <=> PaymentsOf(sys, a) # {}
        /\ \A m \in Methods :
            LET r == pay(sys, db, a, m)
            IN  IF sys.appointments[a].is_paid
                THEN r.result = "AlreadyPaid" /\ r.sys.payments = sys.payments
                ELSE /\ r.result = "OK"
                     /\ Cardinality(PaymentsOf(r.sys, a)) = 1
                     /\ Cardinality(DOMAIN r.sys.payments) = Cardinality(DOMAIN sys.payments) + 1

(* a second pay on the same appointment has been refused *)
C4_Witness ==
    /\ last.op = "pay"
    /\ last.result = "AlreadyPaid"
    /\ \E a \in Appts : sys.appointments[a].is_paid /\ Cardinality(PaymentsOf(sys, a)) = 1

(* C5: an appointment's paid flag never goes from true to false, in any    *)
(* step of the operations or of a restart on the snapshot file             *)
C5_PaidNeverReverts ==
    [][\A a \in Appts \cap DOMAIN sys'.appointments :
           sys.appointments[a].is_paid => sys'.appointments[a].is_paid]_vars

(* what save() followed by load() into a fresh store gives for the store s *)
Reloaded(s) == __init__(save(s)).sys

(* C6: save() then load() into a fresh store gives every appointment the   *)
(* paid flag it had                                                        *)
C6_RoundTripKeepsPaid ==
    \A a \in Appts :
        /\ a \in DOMAIN Reloaded(sys).appointments
        /\ Reloaded(sys).appointments[a].is_paid = sys.appointments[a].is_paid

Lists(m, field) == [k \in DOMAIN m |-> m[k][field]]

SameOutcomes(s, r) ==
    \A st \in StudentIds, t \in TeacherIds, l \in LessonIds, date \in Dates, time \in Times :
        create_appointment(s, db, st, t, l, date, time).result
            = create_appointment(r, db, st, t, l, date, time).result

SameShape(s, r) ==
    /\ DOMAIN r.students = DOMAIN s.students
    /\ DOMAIN r.teachers = DOMAIN s.teachers
    /\ DOMAIN r.lessons = DOMAIN s.lessons
    /\ DOMAIN r.appointments = DOMAIN s.appointments
    /\ Lists(r.teachers, "lessons") = Lists(s.teachers, "lessons")
    /\ Lists(r.students, "appointments") = Lists(s.students, "appointments")
    /\ r.occupied_slots = s.occupied_slots
    /\ \A a \in DOMAIN s.appointments :
           create_appointment(r, db, s.appointments[a].student, s.appointments[a].teacher,
                              s.appointments[a].lesson, s.appointments[a].date_str,
                              s.appointments[a].time_str).result = "SlotConflict"
    /\ SameOutcomes(s, r)

(* C7: save() then load() into a fresh store keeps the four id sets, the   *)
(* lesson list of every teacher, the appointment list of every student and *)
(* the occupied slots; a booked slot still conflicts and create_appointment *)
(* has the same outcome after the reload as before, for every argument      *)
C7_RoundTripKeepsShape ==
    LET r == Reloaded(sys) IN SameShape(sys, r)

(* a store with a booking has been rebuilt from its snapshot *)
C7_Witness ==
    /\ last.op = "__init__"
    /\ last.result = "loaded"
    /\ sys.occupied_slots # {}
    /\ \E st \in DOMAIN sys.students : Len(sys.students[st].appointments) > 0

(* C8: a constructor whose load failed leaves the empty initial store *)
C8_FailedLoadLeavesEmptyStore ==
    (last.op = "__init__" /\ last.result = "failed") => sys = EmptyStore

Kinds == {"student", "teacher", "lesson", "appointment", "payment"}

Counter(s, k) ==
    CASE k = "student" -> s.next_student_id
      [] k = "teacher" -> s.next_teacher_id
      [] k = "lesson" -> s.next_lesson_id
      [] k = "appointment" -> s.next_appointment_id
      [] k = "payment" -> s.next_payment_id

(* C9: per kind, the ids issued so far are 1..n with the counter at n+1;   *)
(* a creation returns the number of creations so far plus one, an id not   *)
(* issued before; a failing call moves no counter; no counter ever goes    *)
(* down, restarts on the saved snapshot included                           *)
C9_SequentialIds ==
    /\ [] (\A k \in Kinds : issued[k] = 1..(Counter(sys, k) - 1))
    /\ [][\A k \in Kinds :
            /\ Counter(sys', k) >= Counter(sys, k)
            /\ (last'.op # "__init__" /\ last'.result # "OK") => Counter(sys', k) = Counter(sys, k)
            /\ (last'.result = "OK" /\ KindOf(last'.op) = k) =>
                   /\ last'.ret = Cardinality(issued[k]) + 1
                   /\ last'.ret \notin issued[k]
                   /\ Counter(sys', k) = last'.ret + 1]_vars

(* a payment id was issued, the store restarted, and the next payment got  *)
(* the next id                                                             *)
C9_Witness ==
    /\ last.op = "pay"
    /\ last.result = "OK"
    /\ last.ret = 2
    /\ DOMAIN sys.payments = {2}

C10_Expected(st, t, l, date, time) ==
    LET known == st \in DOMAIN sys.students /\ t \in DOMAIN sys.teachers /\ l \in DOMAIN sys.lessons
        foreign == known /\ ~(\E i \in 1..Len(sys.teachers[t].lessons) : sys.teachers[t].lessons[i] = l)
        malformed == ~(_validate_date(date) /\ _validate_time(time))
        taken == \E a \in Appts : /\ sys.appointments[a].teacher = t
                                  /\ sys.appointments[a].date_str = date
                                  /\ sys.appointments[a].time_str = time
    IN  CASE st \notin DOMAIN sys.students -> "NotFound_student"
          [] st \in DOMAIN sys.students /\ t \notin DOMAIN sys.teachers -> "NotFound_teacher"
          [] st \in DOMAIN sys.students /\ t \in DOMAIN sys.teachers /\ l \notin DOMAIN sys.lessons
                -> "NotFound_lesson"
          [] foreign -> "InvalidRelation"
          [] known /\ ~foreign /\ malformed -> "InvalidFormat"
          [] known /\ ~foreign /\ ~malformed /\ taken -> "SlotConflict"
          [] OTHER -> "OK"

(* C10: create_appointment raises the first error of the order missing     *)
(* student, missing teacher, missing lesson, lesson of another teacher,    *)
(* malformed date or time, taken slot, and no error otherwise              *)
C10_ErrorPrecedence ==
    \A st \in StudentIds, t \in TeacherIds, l \in LessonIds, date \in Dates, time \in Times :
        create_appointment(sys, db, st, t, l, date, time).result = C10_Expected(st, t, l, date, time)

(* a malformed date or time was refused as such while every teacher has a  *)
(* booking, and some id is still missing for the NotFound cases            *)
C10_Witness ==
    /\ last.op = "create_appointment"
    /\ last.result = "InvalidFormat"
    /\ \A t \in DOMAIN sys.teachers : \E a \in Appts : sys.appointments[a].teacher = t
    /\ DOMAIN sys.students # StudentIds

(* C11: a call of create_appointment, pay, add_lesson or rate_teacher that  *)
(* raises leaves the store as it was: the maps, the lists inside the        *)
(* records, the ratings, the occupied slots, the counters, the paid flags   *)
(* and the file; this holds for the call just made and for every call that  *)
(* could be made in the state reached                                       *)
FailingOps == {"create_appointment", "pay", "add_lesson", "rate_teacher"}

Untouched(r) == r.result # "OK" => (r.sys = sys /\ r.db = db)

C11_FailureChangesNothing ==
    /\ [][(last'.op \in FailingOps /\ last'.result # "OK") => (sys' = sys /\ db' = db /\ issued' = issued)]_vars
    /\ [](/\ \A st \in StudentIds, t \in TeacherIds, l \in LessonIds, date \in Dates, time \in Times :
                Untouched(create_appointment(sys, db, st, t, l, date, time))
          /\ \A a \in AppointmentIds, method \in Methods : Untouched(pay(sys, db, a, method))
          /\ \A t \in TeacherIds, title \in Titles, k \in LessonKinds :
                Untouched(add_lesson(sys, db, t, title, k.duration, k.hourly))
          /\ \A t \in TeacherIds, score \in Scores : Untouched(rate_teacher(sys, db, t, score)))

C11_Witness ==
    /\ last.op = "rate_teacher"
    /\ last.result = "OutOfRange"
    /\ sys.occupied_slots # {}
    /\ \E a \in Appts : sys.appointments[a].is_paid
    /\ db = save(sys)

(* C12: a successful pay returns a Payment whose amount is the lesson's     *)
(* hourly price times its duration in minutes divided by 60: 600 for 90     *)
(* minutes at 400, 50 for 30 minutes at 100, 400 for 60 minutes at 400      *)
AmountDue(duration_min, hourly_price) ==
    CHOOSE x \in 0..(duration_min * hourly_price) : 60 * x = hourly_price * duration_min

LessonOfPayment(p) == sys.lessons[sys.appointments[sys.payments[p].appointment_id].lesson]

C12_AmountIsPriceTimesHours ==
    /\ AmountDue(90, 400) = 600 /\ AmountDue(30, 100) = 50 /\ AmountDue(60, 400) = 400
    /\ \A p \in DOMAIN sys.payments :
           sys.payments[p].amount = AmountDue(LessonOfPayment(p).duration_min, LessonOfPayment(p).hourly_price)
    /\ (last.op = "pay" /\ last.result = "OK") =>
           /\ last.ret \in DOMAIN sys.payments
           /\ sys.payments[last.ret].payment_id = last.ret
           /\ sys.appointments[sys.payments[last.ret].appointment_id].payment_id = last.ret

C12_Witness ==
    /\ last.op = "pay"
    /\ last.result = "OK"
    /\ \E p, q \in DOMAIN sys.payments :
           /\ LessonOfPayment(p).duration_min = 90 /\ LessonOfPayment(p).hourly_price = 400
           /\ sys.payments[p].amount = 600
           /\ LessonOfPayment(q).duration_min = 30 /\ LessonOfPayment(q).hourly_price = 100
           /\ sys.payments[q].amount = 50

(* C13: a store constructed on a saved file has no payments, whatever was   *)
(* paid before, and each of its students and teachers carries the           *)
(* placeholder phone, shown masked as "***-***-0000", not the phone given   *)
(* at registration                                                          *)
Placeholder(u) == u.phone = "0000" /\ get_phone_masked(u.phone) = "***-***-0000"

C13_ReloadDropsPaymentsAndPhones ==
    (last.op = "__init__" /\ last.result = "loaded") =>
        /\ DOMAIN sys.payments = {}
        /\ \A i \in DOMAIN sys.students : Placeholder(sys.students[i])
        /\ \A t \in DOMAIN sys.teachers : Placeholder(sys.teachers[t])
        /\ DOMAIN sys.students = {db.data.students[i].id : i \in 1..Len(db.data.students)}
        /\ DOMAIN sys.teachers = {db.data.teachers[i].id : i \in 1..Len(db.data.teachers)}

C13_Witness ==
    /\ last.op = "__init__"
    /\ last.result = "loaded"
    /\ issued.payment # {}
    /\ DOMAIN sys.payments = {}
    /\ DOMAIN sys.teachers # {}
    /\ \E i \in 1..Len(db.data.students) :
           /\ db.data.students[i].phone_masked = "***-***-4567"
           /\ get_phone_masked(sys.students[db.data.students[i].id].phone) = "***-***-0000"

(* C14: in every state, after any operations and after constructing the     *)
(* store on a saved file, the occupied slots are exactly the keys           *)
(* "teacher:date:time" of the appointments in the map: a key is occupied    *)
(* if and only if a stored appointment has that teacher, date and time      *)
KeyText(teacher_id, date_str, time_str) == ToString(teacher_id) \o ":" \o date_str \o ":" \o time_str

Booked(teacher_id, date_str, time_str) ==
    \E a \in Appts : /\ sys.appointments[a].teacher = teacher_id
                     /\ sys.appointments[a].date_str = date_str
                     /\ sys.appointments[a].time_str = time_str

C14_OccupiedSlotsMatchAppointments ==
    /\ sys.occupied_slots =
           {KeyText(sys.appointments[a].teacher, sys.appointments[a].date_str, sys.appointments[a].time_str) : a \in Appts}
    /\ \A t \in TeacherIds, date \in Dates, time \in Times :
           is_occupied(sys, KeyText(t, date, time)) <=> Booked(t, date, time)

C14_Witness ==
    /\ last.op = "__init__"
    /\ last.result = "loaded"
    /\ Cardinality(sys.occupied_slots) = 2
    /\ Cardinality(Appts) = 2

(* C15: in every state, restarts included, every id in a student's          *)
(* appointment list is a key of the appointment map, and every appointment  *)
(* of the map stands exactly once in the list of its own student and in no  *)
(* other student's list                                                     *)
Occurrences(q, x) == Cardinality({i \in 1..Len(q) : q[i] = x})

C15_StudentListsMatchAppointments ==
    /\ \A st \in DOMAIN sys.students : SeqToSet(sys.students[st].appointments) \subseteq Appts
    /\ \A a \in Appts :
           /\ sys.appointments[a].student \in DOMAIN sys.students
           /\ \A st \in DOMAIN sys.students :
                  Occurrences(sys.students[st].appointments, a) =
                      IF st = sys.appointments[a].student THEN 1 ELSE 0

C15_Witness ==
    /\ last.op = "__init__"
    /\ last.result = "loaded"
    /\ Cardinality(DOMAIN sys.students) = 2
    /\ \E a, b \in Appts : sys.appointments[a].student # sys.appointments[b].student

(* C16: in every state, restarts included, every appointment of the map     *)
(* names a student, a teacher and a lesson that are in their maps, and its  *)
(* lesson is in the lesson list of its teacher                              *)
C16_AppointmentsReferToStoredRecords ==
    \A a \in Appts :
        /\ sys.appointments[a].student \in DOMAIN sys.students
        /\ sys.appointments[a].teacher \in DOMAIN sys.teachers
        /\ sys.appointments[a].lesson \in DOMAIN sys.lessons
        /\ \E i \in 1..Len(sys.teachers[sys.appointments[a].teacher].lessons) :
               sys.teachers[sys.appointments[a].teacher].lessons[i] = sys.appointments[a].lesson

C16_Witness ==
    /\ last.op = "__init__"
    /\ last.result = "loaded"
    /\ \E a \in Appts, t \in DOMAIN sys.teachers :
           /\ t # sys.appointments[a].teacher
           /\ sys.teachers[t].lessons # <<>>
           /\ sys.appointments[a].lesson \notin SeqToSet(sys.teachers[t].lessons)

(* C17: add_lesson for a teacher that does not exist raises NotFound and    *)
(* creates no lesson; for a teacher that exists it appends the new id to    *)
(* that teacher's list only; in every state, restarts included, each lesson *)
(* of the map stands in the list of exactly one teacher, exactly once, and  *)
(* every id in a teacher's list is a key of the lesson map                  *)
Owners(l) == {t \in DOMAIN sys.teachers : l \in SeqToSet(sys.teachers[t].lessons)}

C17_LessonsHaveOneOwner ==
    /\ \A t \in TeacherIds, title \in Titles, k \in LessonKinds :
           LET r == add_lesson(sys, db, t, title, k.duration, k.hourly)
           IN  IF t \notin DOMAIN sys.teachers
               THEN r.result = "NotFound_teacher" /\ r.sys.lessons = sys.lessons /\ r.sys = sys
               ELSE /\ r.result = "OK"
                    /\ DOMAIN r.sys.lessons = DOMAIN sys.lessons \cup {r.ret}
                    /\ r.ret \notin DOMAIN sys.lessons
                    /\ \A u \in DOMAIN sys.teachers :
                           r.sys.teachers[u].lessons =
                               IF u = t THEN sys.teachers[u].lessons \o <<r.ret>>
                               ELSE sys.teachers[u].lessons
    /\ \A l \in DOMAIN sys.lessons :
           /\ Cardinality(Owners(l)) = 1
           /\ \A t \in Owners(l) : Occurrences(sys.teachers[t].lessons, l) = 1
    /\ \A t \in DOMAIN sys.teachers : SeqToSet(sys.teachers[t].lessons) \subseteq DOMAIN sys.lessons

C17_Witness ==
    /\ last.op = "add_lesson"
    /\ last.result = "NotFound_teacher"
    /\ Cardinality(DOMAIN sys.lessons) = 2
    /\ Cardinality(DOMAIN sys.teachers) = 1
    /\ db = save(sys)

(* C18: right after a successful add_student, add_teacher, add_lesson,      *)
(* create_appointment, pay or rate_teacher the file is the serialization of *)
(* the store: the five counters, the students with their appointment        *)
(* lists, the teachers with their lesson lists, the lessons, and the        *)
(* appointments with their student, teacher and lesson ids, date, time and  *)
(* paid flag                                                                *)
MutatingOps == {"add_student", "add_teacher", "add_lesson", "create_appointment", "pay", "rate_teacher"}

Ids(q) == {q[i].id : i \in 1..Len(q)}

Written(q, m) == Len(q) = Cardinality(DOMAIN m) /\ Ids(q) = DOMAIN m

C18_FileIsSerializedStore ==
    (last.op \in MutatingOps /\ last.result = "OK") =>
        /\ db.kind = "json"
        /\ db.data.next_ids.student = sys.next_student_id
        /\ db.data.next_ids.teacher = sys.next_teacher_id
        /\ db.data.next_ids.lesson = sys.next_lesson_id
        /\ db.data.next_ids.appointment = sys.next_appointment_id
        /\ db.data.next_ids.payment = sys.next_payment_id
        /\ Written(db.data.students, sys.students)
        /\ \A i \in 1..Len(db.data.students) :
               LET e == db.data.students[i]
               IN  /\ e.name = sys.students[e.id].name
                   /\ e.grade = sys.students[e.id].grade_level
                   /\ e.appointments = sys.students[e.id].appointments
        /\ Written(db.data.teachers, sys.teachers)
        /\ \A i \in 1..Len(db.data.teachers) :
               LET e == db.data.teachers[i]
               IN  /\ e.name = sys.teachers[e.id].name
                   /\ e.branch = sys.teachers[e.id].branch
                   /\ e.lessons = sys.teachers[e.id].lessons
        /\ Written(db.data.lessons, sys.lessons)
        /\ \A i \in 1..Len(db.data.lessons) :
               LET e == db.data.lessons[i]
               IN  /\ e.title = sys.lessons[e.id].title
                   /\ e.duration = sys.lessons[e.id].duration_min
                   /\ e.hourly = sys.lessons[e.id].hourly_price
        /\ Written(db.data.appointments, sys.appointments)
        /\ \A i \in 1..Len(db.data.appointments) :
               LET e == db.data.appointments[i]
               IN  /\ e.student_id = sys.appointments[e.id].student
                   /\ e.teacher_id = sys.appointments[e.id].teacher
                   /\ e.lesson_id = sys.appointments[e.id].lesson
                   /\ e.date = sys.appointments[e.id].date_str
                   /\ e.time = sys.appointments[e.id].time_str
                   /\ e.paid = sys.appointments[e.id].is_paid

C18_Witness ==
    /\ last.op = "pay"
    /\ last.result = "OK"
    /\ issued.payment = {1, 2}
    /\ Cardinality(DOMAIN sys.payments) = 1
    /\ Len(db.data.appointments) = 2
    /\ \E i, j \in 1..Len(db.data.appointments) : db.data.appointments[i].paid /\ ~db.data.appointments[j].paid

(* C19: nothing is removed or replaced: in every step the key sets of the   *)
(* four maps and the set of occupied slots only grow, a student, teacher    *)
(* or lesson that exists keeps its fields and its list is only extended,    *)
(* and an appointment that exists keeps its student, teacher, lesson, date  *)
(* and time                                                                 *)
IsPrefix(p, q) == Len(p) <= Len(q) /\ SubSeq(q, 1, Len(p)) = p

C19_NothingRemovedOrReplaced ==
    [][/\ DOMAIN sys.students \subseteq DOMAIN sys'.students
       /\ DOMAIN sys.teachers \subseteq DOMAIN sys'.teachers
       /\ DOMAIN sys.lessons \subseteq DOMAIN sys'.lessons
       /\ DOMAIN sys.appointments \subseteq DOMAIN sys'.appointments
       /\ sys.occupied_slots \subseteq sys'.occupied_slots
       /\ \A i \in DOMAIN sys.students :
              /\ sys'.students[i].name = sys.students[i].name
              /\ sys'.students[i].grade_level = sys.students[i].grade_level
              /\ IsPrefix(sys.students[i].appointments, sys'.students[i].appointments)
       /\ \A t \in DOMAIN sys.teachers :
              /\ sys'.teachers[t].name = sys.teachers[t].name
              /\ sys'.teachers[t].branch = sys.teachers[t].branch
              /\ IsPrefix(sys.teachers[t].lessons, sys'.teachers[t].lessons)
       /\ \A l \in DOMAIN sys.lessons : sys'.lessons[l] = sys.lessons[l]
       /\ \A a \in DOMAIN sys.appointments :
              /\ sys'.appointments[a].student = sys.appointments[a].student
              /\ sys'.appointments[a].teacher = sys.appointments[a].teacher
              /\ sys'.appointments[a].lesson = sys.appointments[a].lesson
              /\ sys'.appointments[a].date_str = sys.appointments[a].date_str
              /\ sys'.appointments[a].time_str = sys.appointments[a].time_str]_vars

C19_Witness ==
    /\ last.op = "add_student"
    /\ Cardinality(DOMAIN sys.students) = 2
    /\ Cardinality(Appts) = 2
    /\ Cardinality(sys.occupied_slots) = 2
    /\ \E a \in Appts : sys.appointments[a].is_paid

(* C20: in the menu loop every command that fails, by an error of the store *)
(* or by an id that does not parse, has its error displayed, leaves the     *)
(* store and the file as the earlier commands made them, and is followed    *)
(* by the menu again; the loop is left only by the choice "0"               *)
C20_LoopSurvivesFailures ==
    /\ [][(ui.pc = "menu" /\ ui'.outcome # "OK") =>
              (ui'.pc = "menu" /\ ui'.shown = "error" /\ sys' = sys /\ db' = db)]_vars
    /\ [][(ui.pc = "menu" /\ ui'.pc # "menu") => (ui'.pc = "exited" /\ ui'.choice = "0")]_vars
    /\ [](ui.pc = "exited" => ui.choice = "0")
    /\ [](ui.pc = "menu" => (ENABLED ParseError /\ ENABLED Exit))

C20_Witness ==
    /\ ui.pc = "menu"
    /\ ui.choice = "5"
    /\ ui.outcome = "ValueError"
    /\ ui.shown = "error"
    /\ last.op = "pay"
    /\ last.result = "AlreadyPaid"
    /\ \E a \in Appts : sys.appointments[a].is_paid
    /\ db = save(sys)

(* C21: slot conflicts are keyed on the teacher only. create_appointment    *)
(* raises SlotConflict only when the teacher already has an appointment at  *)
(* that date and time, whoever the student is: what it answers is the same  *)
(* for every existing student, and a student who is already booked at that  *)
(* date and time with another teacher is still accepted. The same date and  *)
(* time is booked at most once per teacher                                  *)
BusyElsewhere(student_id, teacher_id, date_str, time_str) ==
    \E a \in Appts : /\ sys.appointments[a].student = student_id
                     /\ sys.appointments[a].teacher # teacher_id
                     /\ sys.appointments[a].date_str = date_str
                     /\ sys.appointments[a].time_str = time_str

C21_ConflictsKeyedOnTeacherOnly ==
    /\ \A st \in StudentIds, t \in TeacherIds, l \in LessonIds, date \in Dates, time \in Times :
           LET r == create_appointment(sys, db, st, t, l, date, time)
           IN  /\ r.result = "SlotConflict" => Booked(t, date, time)
               /\ (r.result = "OK" /\ BusyElsewhere(st, t, date, time)) =>
                      /\ r.ret \notin Appts
                      /\ r.sys.appointments[r.ret].student = st
                      /\ SeqToSet(sys.students[st].appointments) \cup {r.ret}
                             = SeqToSet(r.sys.students[st].appointments)
               /\ \A other \in DOMAIN sys.students :
                      st \in DOMAIN sys.students =>
                          create_appointment(sys, db, other, t, l, date, time).result = r.result
    /\ \A a, b \in Appts :
           (/\ sys.appointments[a].teacher = sys.appointments[b].teacher
            /\ sys.appointments[a].date_str = sys.appointments[b].date_str
            /\ sys.appointments[a].time_str = sys.appointments[b].time_str) => a = b
    /\ (last.op = "create_appointment" /\ last.result = "OK") =>
           \A b \in Appts \ {last.ret} :
               (/\ sys.appointments[b].date_str = sys.appointments[last.ret].date_str
                /\ sys.appointments[b].time_str = sys.appointments[last.ret].time_str)
               => sys.appointments[b].teacher # sys.appointments[last.ret].teacher

C21_Witness ==
    /\ last.op = "create_appointment"
    /\ last.result = "OK"
    /\ \E a, b \in Appts :
           /\ a # b
           /\ sys.appointments[a].student = sys.appointments[b].student
           /\ sys.appointments[a].teacher # sys.appointments[b].teacher
           /\ sys.appointments[a].date_str = sys.appointments[b].date_str
           /\ sys.appointments[a].time_str = sys.appointments[b].time_str
           /\ Len(sys.students[sys.appointments[a].student].appointments) = 2

====
